---- MODULE Spec2Model ----
(***************************************************************************)
(* Finite-field elements (src/src/finite_fields/mod.rs) and the elliptic-  *)
(* curve group law exercised by src/src/elliptic_curve/mod.rs.             *)
(*                                                                         *)
(* Felt stores `inner` and `prime` as U256.  U256 arithmetic aborts on     *)
(* overflow and underflow, so every U256 operation is modelled as a        *)
(* checked operation over a Width-bit unsigned integer that yields PANIC   *)
(* when the exact result leaves 0 .. MaxU.                                  *)
(***************************************************************************)
EXTENDS Integers, Naturals, Sequences, FiniteSets, TLC

\* ---------------------------------------------------------------- bounds
\* Width of the unsigned integer type holding inner and prime (scaled down).
Width == 8
\* Largest exponent magnitude handed to the two pow implementations.
MaxExp == 4
\* Largest raw value handed to Felt::new.
MaxRaw == 14
\* Primes whose whole field is enumerated.
MaxFullPrime == 13

RECURSIVE Pow2(_)
Pow2(n) == IF n = 0 THEN 1 ELSE 2 * Pow2(n - 1)

MaxU == Pow2(Width) - 1

IsPrime(n) == n >= 2 /\ \A d \in 2..(n - 1) : n % d # 0

\* The largest prime that fits the integer type, next to the small ones.
LargestPrime == CHOOSE q \in 2..MaxU : IsPrime(q) /\ \A r \in (q + 1)..MaxU : ~IsPrime(r)

Primes == {q \in 2..MaxFullPrime : IsPrime(q)} \cup {LargestPrime}

\* Elements of the field over q used as inputs: all of them for a small
\* prime, the ones next to 0 and next to q for the largest prime.
Elems(q) == IF q <= MaxFullPrime THEN 0..(q - 1)
            ELSE {x \in 0..(q - 1) : x <= 2 \/ x >= q - 3}

\* ------------------------------------------------------ U256 (checked)
PANIC == -1

U256_add(x, y) == IF x = PANIC \/ y = PANIC THEN PANIC
                  ELSE IF x > MaxU - y THEN PANIC ELSE x + y

U256_sub(x, y) == IF x = PANIC \/ y = PANIC THEN PANIC
                  ELSE IF x < y THEN PANIC ELSE x - y

U256_mul(x, y) == IF x = PANIC \/ y = PANIC THEN PANIC
                  ELSE IF y # 0 /\ x > MaxU \div y THEN PANIC ELSE x * y

\* Exponentiation by squaring; aborts as soon as a product overflows.
RECURSIVE PowLoop(_, _, _)
PowLoop(x, y, n) ==
    IF n > 1
    THEN IF n % 2 = 0
         THEN PowLoop(U256_mul(x, x), y, n \div 2)
         ELSE PowLoop(U256_mul(x, x), U256_mul(x, y), n \div 2)
    ELSE U256_mul(x, y)

U256_pow(x, n) == IF x = PANIC \/ n = PANIC THEN PANIC
                  ELSE IF n = 0 THEN 1 ELSE PowLoop(x, 1, n)

\* Modulo::modulo on unsigned values.
modulo(x, q) == IF x = PANIC \/ q = PANIC THEN PANIC ELSE x % q

\* ------------------------------------------------------------------ Felt
Ok(inner, q) == [status |-> "ok", inner |-> inner, prime |-> q]
Aborted(kind) == [status |-> kind, inner |-> 0, prime |-> 0]
NoResult == [status |-> "none", inner |-> 0, prime |-> 0]

new_le(inner, q) ==
    IF inner = PANIC \/ q = PANIC THEN Aborted("overflow")
    ELSE IF inner <= q THEN Ok(inner, q) ELSE Aborted("assert")

\* Felt::new: assert!(inner < prime); an aborted U256 computation never
\* reaches the constructor.
new(inner, q) ==
    IF inner = PANIC \/ q = PANIC THEN Aborted("overflow")
    ELSE IF inner < q THEN Ok(inner, q) ELSE Aborted("assert")

add(x, y, q) == new(modulo(U256_add(x, y), q), q)

sub(x, y, q) ==
    LET result == IF x > y THEN U256_sub(x, y)
                  ELSE U256_sub(q, U256_sub(y, x))
    IN  new(result, q)

mul(x, y, q) == new(modulo(U256_mul(x, y), q), q)

div_p1(x, y, q) ==
    LET exponent == U256_sub(q, 1)
    IN  new(modulo(U256_mul(x, U256_pow(y, exponent)), q), q)

div_p3(x, y, q) ==
    LET exponent == U256_sub(q, 3)
    IN  new(modulo(U256_mul(x, U256_pow(y, exponent)), q), q)

div(x, y, q) ==
    LET exponent == U256_sub(q, 2)
    IN  new(modulo(U256_mul(x, U256_pow(y, exponent)), q), q)

\* Pow<u32>
pow_u32(x, e, q) ==
    LET exponent == modulo(e, q)
    IN  new(modulo(U256_pow(x, exponent), q), q)

Abs(e) == IF e < 0 THEN 0 - e ELSE e

\* Pow<i64>
pow_i64(x, e, q) ==
    LET inner == IF e > 0
                 THEN modulo(U256_pow(x, e), q)
                 ELSE LET prime1 == U256_sub(q, 1)
                          exponent == U256_sub(prime1, Abs(e))
                      IN  modulo(U256_pow(x, exponent), q)
    IN  new(inner, q)

\* ------------------------------------------- exact field arithmetic
\* The curve tests build their elements with felt!(..) and read them back
\* through inner() and prime() as arbitrary-precision integers; that
\* element type computes in Z/pZ without a width (spec 4.1).
\* x^n mod q, reduced after every product.
RECURSIVE PowMod(_, _, _)
PowMod(x, n, q) ==
    IF n = 0 THEN 1 % q
    ELSE LET h == PowMod(x, n \div 2, q)
         IN  IF n % 2 = 0 THEN (h * h) % q ELSE (((h * h) % q) * x) % q

FAdd(x, y, q) == (x + y) % q
FSub(x, y, q) == (x + q - y) % q
FMul(x, y, q) == (x * y) % q
\* a * b^(p-2) mod p
FDiv(x, y, q) == (x * PowMod(y, q - 2, q)) % q

\* ---------------------------------------------------- curve and points
\* Largest prime of the fields whose curves are enumerated completely.
MaxCurvePrime == 7
\* Largest scalar handed to the two multiplications.
MaxK == 10
\* Cap on the iterations of the order loop.
MaxIter == 10

Identity == [inf |-> TRUE, x |-> 0, y |-> 0]
Affine(x, y) == [inf |-> FALSE, x |-> x, y |-> y]

\* y^2 = x^3 + a*x + b in the curve's field
OnCurve(c, x, y) ==
    LET q == c.p
    IN  FMul(y, y, q) =
            FAdd(FAdd(FMul(FMul(x, x, q), x, q), FMul(c.a, x, q), q), c.b, q)

\* Group law with a doubling slope of (2*x^2 + a) / (2*y).
PointAdd_slope2(c, P, Q) ==
    IF P.inf THEN Q
    ELSE IF Q.inf THEN P
    ELSE IF P.x = Q.x /\ P.y # Q.y THEN Identity
    ELSE IF P = Q /\ P.y = 0 THEN Identity
    ELSE LET q == c.p
             s == IF P = Q
                  THEN FDiv(FAdd(FMul(2 % q, FMul(P.x, P.x, q), q), c.a, q),
                            FMul(2 % q, P.y, q), q)
                  ELSE FDiv(FSub(Q.y, P.y, q), FSub(Q.x, P.x, q), q)
             x3 == FSub(FSub(FMul(s, s, q), P.x, q), Q.x, q)
             y3 == FSub(FMul(s, FSub(P.x, x3, q), q), P.y, q)
         IN  Affine(x3, y3)

\* Group law, rules 1-5 in priority order.
PointAdd(c, P, Q) ==
    IF P.inf THEN Q
    ELSE IF Q.inf THEN P
    ELSE IF P.x = Q.x /\ P.y # Q.y THEN Identity
    ELSE IF P = Q /\ P.y = 0 THEN Identity
    ELSE LET q == c.p
             s == IF P = Q
                  THEN FDiv(FAdd(FMul(3 % q, FMul(P.x, P.x, q), q), c.a, q),
                            FMul(2 % q, P.y, q), q)
                  ELSE FDiv(FSub(Q.y, P.y, q), FSub(Q.x, P.x, q), q)
             x3 == FSub(FSub(FMul(s, s, q), P.x, q), Q.x, q)
             y3 == FSub(FMul(s, FSub(P.x, x3, q), q), P.y, q)
         IN  Affine(x3, y3)

\* P added to an accumulator k - 1 times; Identity for k = 0.
RECURSIVE naive_mul(_, _, _)
naive_mul(c, P, k) ==
    IF k = 0 THEN Identity
    ELSE IF k = 1 THEN P
    ELSE PointAdd(c, naive_mul(c, P, k - 1), P)

\* Bits from least to most significant: `current` doubles every step and
\* is accumulated into `result` when the bit is set.
RECURSIVE BinLoop(_, _, _, _)
BinLoop(c, result, current, n) ==
    IF n = 0 THEN result
    ELSE BinLoop(c,
                 IF n % 2 = 1 THEN PointAdd(c, result, current) ELSE result,
                 PointAdd(c, current, current),
                 n \div 2)

\* Double-and-add that doubles `current` only after a clear bit.
RECURSIVE BinLoopNoDouble(_, _, _, _)
BinLoopNoDouble(c, result, current, n) ==
    IF n = 0 THEN result
    ELSE BinLoopNoDouble(c,
                 IF n % 2 = 1 THEN PointAdd(c, result, current) ELSE result,
                 IF n % 2 = 1 THEN current ELSE PointAdd(c, current, current),
                 n \div 2)

binary_expansion_mul_nodouble(c, P, k) == BinLoopNoDouble(c, Identity, P, k)

binary_expansion_mul(c, P, k) == BinLoop(c, Identity, P, k)

\* The toy curve y^2 = x^3 + 7 over 223 of the tests.
Toy == [a |-> 0, b |-> 7, p |-> 223]

\* A point of order 21 in place of the one of order 7.
generator_g47 == Affine(47, 71)

\* The point the order loop adds.
generator == Affine(15, 86)

\* Every curve over a small prime, and the toy curve.
ECurves ==
    {[a |-> t[1], b |-> t[2], p |-> t[3]] :
        t \in {u \in (0..MaxCurvePrime) \X (0..MaxCurvePrime) \X (2..MaxCurvePrime) :
                   IsPrime(u[3]) /\ u[1] < u[3] /\ u[2] < u[3]}}
    \cup {Toy}

\* Points the tests name on the toy curve.
ToyPoints ==
    {Affine(170, 142), Affine(60, 139), Affine(220, 181), Affine(47, 71),
     Affine(15, 86), Affine(192, 105)}

\* Identity and the valid affine points given to the operations.
PointsOn(c) ==
    {Identity} \cup
    IF c = Toy THEN {pt \in ToyPoints : OnCurve(c, pt.x, pt.y)}
    ELSE {Affine(t[1], t[2]) :
            t \in {u \in (0..(c.p - 1)) \X (0..(c.p - 1)) : OnCurve(c, u[1], u[2])}}

\* 16 * (4a^3 + 27b^2) is nonzero in the field.
NonSingular(c) == (16 * (4 * c.a * c.a * c.a + 27 * c.b * c.b)) % c.p # 0

\* ----------------------------------------------------------------- state
VARIABLES prime, a, b, op, arg, out,
          curve, P, Q, R, ecop, k, sums, nm, bm, acc, i

fvars == <<prime, a, b, op, arg, out>>
evars == <<curve, P, Q, R, ecop, k, sums, nm, bm, acc, i>>
vars == <<fvars, evars>>

NoSums == [pq |-> Identity, qp |-> Identity, pq_r |-> Identity,
           p_qr |-> Identity, id_p |-> Identity, p_id |-> Identity]

EInitial ==
    /\ ecop = "init" /\ k = 0 /\ sums = NoSums
    /\ nm = Identity /\ bm = Identity /\ acc = Identity /\ i = 0

Init ==
    /\ curve = Toy /\ P = Identity /\ Q = Identity /\ R = Identity
    /\ EInitial
    /\ prime \in Primes
    /\ a \in Elems(prime)
    /\ b \in Elems(prime)
    /\ op = "init"
    /\ arg = 0
    /\ out = NoResult

New ==
    \E inner \in 0..MaxRaw :
        /\ op' = "new" /\ arg' = inner /\ out' = new(inner, prime)
        /\ UNCHANGED <<prime, a, b, evars>>

Add == /\ op' = "add" /\ arg' = 0 /\ out' = add(a, b, prime)
       /\ UNCHANGED <<prime, a, b, evars>>

Sub == /\ op' = "sub" /\ arg' = 0 /\ out' = sub(a, b, prime)
       /\ UNCHANGED <<prime, a, b, evars>>

Mul == /\ op' = "mul" /\ arg' = 0 /\ out' = mul(a, b, prime)
       /\ UNCHANGED <<prime, a, b, evars>>

Div == /\ op' = "div" /\ arg' = 0 /\ out' = div(a, b, prime)
       /\ UNCHANGED <<prime, a, b, evars>>

PowU32 ==
    \E e \in 0..MaxExp :
        /\ op' = "pow_u32" /\ arg' = e /\ out' = pow_u32(a, e, prime)
        /\ UNCHANGED <<prime, a, b, evars>>

PowI64 ==
    \E e \in (0 - MaxExp)..MaxExp :
        /\ op' = "pow_i64" /\ arg' = e /\ out' = pow_i64(a, e, prime)
        /\ UNCHANGED <<prime, a, b, evars>>

Next == New \/ Add \/ Sub \/ Mul \/ Div \/ PowU32 \/ PowI64

Spec == Init /\ [][Next]_vars

\* ------------------------------------------------------- curve machine
\* Every run applies one operation to the operands it was given.
InitEC ==
    /\ prime = 2 /\ a = 0 /\ b = 0 /\ op = "init" /\ arg = 0 /\ out = NoResult
    /\ curve \in ECurves
    /\ P \in PointsOn(curve)
    /\ Q \in PointsOn(curve)
    /\ R \in PointsOn(curve)
    /\ EInitial

\* pt1 + pt2 and the sums around it.
PointAddOp ==
    /\ ecop = "init"
    /\ ecop' = "add"
    /\ sums' = [pq   |-> PointAdd(curve, P, Q),
                qp   |-> PointAdd(curve, Q, P),
                pq_r |-> PointAdd(curve, PointAdd(curve, P, Q), R),
                p_qr |-> PointAdd(curve, P, PointAdd(curve, Q, R)),
                id_p |-> PointAdd(curve, Identity, P),
                p_id |-> PointAdd(curve, P, Identity)]
    /\ UNCHANGED <<fvars, curve, P, Q, R, k, nm, bm, acc, i>>

\* naive_mul and binary_expansion_mul of the same point and coefficient.
ScalarMulOp ==
    \E coefficient \in 0..MaxK :
        /\ ecop = "init"
        /\ ecop' = "mul"
        /\ k' = coefficient
        /\ nm' = naive_mul(curve, P, coefficient)
        /\ bm' = binary_expansion_mul(curve, P, coefficient)
        /\ UNCHANGED <<fvars, curve, P, Q, R, sums, acc, i>>

\* One pass of the order loop: point = point + generator; i += 1; the loop
\* is left once point is the identity.
OrderStep ==
    /\ curve = Toy
    /\ ecop \in {"init", "order"}
    /\ ~(i > 0 /\ acc = Identity)
    /\ i < MaxIter
    /\ ecop' = "order"
    /\ acc' = PointAdd(curve, acc, generator)
    /\ i' = i + 1
    /\ UNCHANGED <<fvars, curve, P, Q, R, k, sums, nm, bm>>

NextEC == PointAddOp \/ ScalarMulOp \/ OrderStep

SpecEC == InitEC /\ [][NextEC]_vars

\* ------------------------------------------------------- curve claims

C4_AbelianGroup ==
    ecop = "add" =>
        /\ sums.pq = sums.qp
        /\ sums.pq_r = sums.p_qr
        /\ sums.id_p = P /\ sums.p_id = P

\* C4 (amended): the same on a fixed nonsingular curve, one whose
\* discriminant 16 * (4a^3 + 27b^2) is nonzero in the field.
C4_AbelianGroupNonSingular ==
    (ecop = "add" /\ NonSingular(curve)) =>
        /\ sums.pq = sums.qp
        /\ sums.pq_r = sums.p_qr
        /\ sums.id_p = P /\ sums.p_id = P

C4_Witness ==
    /\ ecop = "add" /\ curve = Toy /\ NonSingular(curve)
    /\ P = Affine(170, 142) /\ Q = Affine(60, 139) /\ R = Affine(60, 139)
    /\ sums.pq = Affine(220, 181) /\ ~sums.pq_r.inf /\ sums.pq_r = sums.p_qr

\* C5: on y^2 = x^3 + 7 over 223, starting from Identity and repeatedly
\* adding (15, 86), the accumulator is not Identity after each of the first
\* 6 additions and is Identity after the 7th.
C5_OrderSeven ==
    (curve = Toy /\ OnCurve(Toy, generator.x, generator.y)) =>
        /\ (i >= 1 /\ i <= 6) => acc # Identity
        /\ i = 7 => acc = Identity
        /\ i <= 7

C5_Witness == curve = Toy /\ ecop = "order" /\ i = 7 /\ acc = Identity

\* ------------------------------------------------------- field claims

\* C1: sub(a, b) succeeds and returns (a.inner - b.inner) mod p, with
\* 0 <= inner < p; in particular sub(a, a) is the zero element.
C1_SubIsDifference ==
    op = "sub" =>
        /\ out.status = "ok"
        /\ out.inner = (a + prime - b) % prime
        /\ out.inner >= 0 /\ out.inner < prime

\* C2: Felt::new(inner, prime) succeeds exactly when inner < prime and
\* then stores inner and prime unchanged; otherwise no element is produced.
C2_NewExactlyWhenReduced ==
    op = "new" =>
        /\ (out.status = "ok") <=> (arg < prime)
        /\ out.status = "ok" => (out.inner = arg /\ out.prime = prime)
        /\ arg >= prime => out.status = "assert"

C2_Witness == op = "new" /\ arg = prime - 1 /\ arg > 0 /\ out = Ok(arg, prime)

\* C6: for nonzero b, whenever the intermediate values fit the integer
\* width, div(a, b) is a * b^(p-2) mod p, the unique c with c * b = a in
\* the field; div(a, a) is 1.
C6_DivIsInverseOfMul ==
    (op = "div" /\ b # 0 /\ out.status # "overflow") =>
        /\ out.status = "ok"
        /\ out.inner = (a * PowMod(b, prime - 2, prime)) % prime
        /\ \A c \in 0..(prime - 1) : ((c * b) % prime = a) <=> (c = out.inner)
        /\ mul(out.inner, b, prime).status = "ok"
               => mul(out.inner, b, prime).inner = a
        /\ a = b => out.inner = 1

C6_Witness ==
    /\ op = "div" /\ b > 1 /\ a # 0 /\ a # b /\ prime > 3
    /\ out.status = "ok" /\ out.inner # a

\* C7: for nonzero a and negative e, pow(a, e) succeeds and is the inverse
\* of a raised to |e|: pow(a, e) * a^|e| = 1; pow(a, -1) = div(1, a).
C7_NegativePowIsInverse ==
    (op = "pow_i64" /\ arg < 0 /\ a # 0) =>
        /\ out.status = "ok"
        /\ (out.inner * PowMod(a, Abs(arg), prime)) % prime = 1
        /\ arg = 0 - 1 => out = div(1, a, prime)

\* C8: pow(base, e) with an unsigned exponent returns base^e mod p, also
\* for e >= p.
C8_PowU32IsModExp ==
    op = "pow_u32" =>
        /\ out.status = "ok"
        /\ out.inner = PowMod(a, arg, prime)

\* C9: the values add, mul, div and pow compute before the modular
\* reduction never exceed the integer type, so no operation aborts.
C9_NoOverflow ==
    (op \in {"add", "mul", "div", "pow_u32"} \/ (op = "pow_i64" /\ arg > 0))
        => out.status = "ok"

\* C10 (as stated): div(x, zero) returns the zero element for every prime,
\* p = 2 included.
C10_DivByZeroIsZero ==
    (op = "div" /\ b = 0) => out = Ok(0, prime)

\* C10 (amended): div(x, zero) returns the zero element for every odd prime.
C10_DivByZeroIsZeroOddPrime ==
    (op = "div" /\ b = 0 /\ prime > 2) => out = Ok(0, prime)

C10_Witness == op = "div" /\ b = 0 /\ prime > 2 /\ a # 0 /\ out = Ok(0, prime)
====
